---- MODULE Spec2Model ----
(***************************************************************************)
(* A model of src/quizx/src/simulation_bencher.rs: the stratified sampler  *)
(* get_testset, the benchmark runner bench_setup / benchmark_driver, the   *)
(* aggregator and renderer create_svg_plot, and the orchestrator bench.    *)
(*                                                                         *)
(* A graph is modelled by the one thing the file reads from it, its        *)
(* t-count.  A CSV field is a sequence of one-character strings, a CSV     *)
(* line a sequence of fields.  An f64 is a binary floating-point number    *)
(* with a MantissaBits-bit significand, rounded to nearest, ties to even,  *)
(* with infinities and NaN; its exponent is unbounded.                     *)
(***************************************************************************)
EXTENDS Integers, Sequences, FiniteSets, TLC

(***************************************************************************)
(* Configuration.  MIN_TCOUNT and SAMPLES_PER_TCOUNT have the values of    *)
(* the source.  The source sets MAX_TCOUNT = 40, i.e. 34 bins; the model   *)
(* keeps MAX_TCOUNT - MIN_TCOUNT = NumBins bins.                           *)
(***************************************************************************)
MIN_TCOUNT == 6

SAMPLES_PER_TCOUNT == 4

NumBins == 3

MAX_TCOUNT == MIN_TCOUNT + NumBins

\* Rows of a table handed to create_svg_plot on its own (header excluded).
MaxRows == 3

\* Significand width of the modelled f64 (53 in the source's f64).
MantissaBits == 14

(***************************************************************************)
(* f64                                                                     *)
(***************************************************************************)
Fin(s, m, e) == [k |-> "fin", s |-> s, m |-> m, e |-> e]

Zero == [k |-> "fin", s |-> 1, m |-> 0, e |-> 0]

INFINITY == [k |-> "inf", s |-> 1, m |-> 0, e |-> 0]

NEG_INFINITY == [k |-> "inf", s |-> -1, m |-> 0, e |-> 0]

NAN == [k |-> "nan", s |-> 1, m |-> 0, e |-> 0]

IsNaN(a) == a.k = "nan"

IsInf(a) == a.k = "inf"

IsFinite(a) == a.k = "fin"

IsZero(a) == a.k = "fin" /\ a.m = 0

RECURSIVE BitLen(_)
BitLen(m) == IF m = 0 THEN 0 ELSE 1 + BitLen(m \div 2)

\* s * m * 2^e rounded to MantissaBits bits, nearest, ties to even.
Norm(s, m, e) ==
    IF m = 0 THEN Zero
    ELSE LET b == BitLen(m) IN
         IF b <= MantissaBits
         THEN Fin(s, m * 2^(MantissaBits - b), e - (MantissaBits - b))
         ELSE LET k    == b - MantissaBits
                  q    == m \div 2^k
                  r    == m % 2^k
                  half == 2^(k - 1)
                  q1   == IF r > half \/ (r = half /\ q % 2 = 1) THEN q + 1 ELSE q
              IN  IF q1 = 2^MantissaBits
                  THEN Fin(s, 2^(MantissaBits - 1), e + k + 1)
                  ELSE Fin(s, q1, e + k)

\* `n as f64`
FromInt(n) == IF n >= 0 THEN Norm(1, n, 0) ELSE Norm(-1, -n, 0)

FNeg(a) == IF a.k = "nan" \/ IsZero(a) THEN a ELSE [a EXCEPT !.s = -a.s]

FAdd(a, b) ==
    IF IsNaN(a) \/ IsNaN(b) THEN NAN
    ELSE IF IsInf(a) /\ IsInf(b) THEN (IF a.s = b.s THEN a ELSE NAN)
    ELSE IF IsInf(a) THEN a
    ELSE IF IsInf(b) THEN b
    ELSE IF IsZero(a) THEN b
    ELSE IF IsZero(b) THEN a
    ELSE LET hi == IF a.e >= b.e THEN a ELSE b
             lo == IF a.e >= b.e THEN b ELSE a
             d  == hi.e - lo.e
         IN  IF d >= MantissaBits + 2 THEN hi
             ELSE LET sum == hi.s * hi.m * 2^d + lo.s * lo.m
                  IN  IF sum >= 0 THEN Norm(1, sum, lo.e) ELSE Norm(-1, -sum, lo.e)

FSub(a, b) == FAdd(a, FNeg(b))

FMul(a, b) ==
    IF IsNaN(a) \/ IsNaN(b) THEN NAN
    ELSE IF (IsInf(a) /\ IsZero(b)) \/ (IsZero(a) /\ IsInf(b)) THEN NAN
    ELSE IF IsInf(a) \/ IsInf(b) THEN [INFINITY EXCEPT !.s = a.s * b.s]
    ELSE IF IsZero(a) \/ IsZero(b) THEN Zero
    ELSE Norm(a.s * b.s, a.m * b.m, a.e + b.e)

FDiv(a, b) ==
    IF IsNaN(a) \/ IsNaN(b) THEN NAN
    ELSE IF IsInf(a) /\ IsInf(b) THEN NAN
    ELSE IF IsZero(a) /\ IsZero(b) THEN NAN
    ELSE IF IsInf(a) \/ IsZero(b) THEN [INFINITY EXCEPT !.s = a.s * b.s]
    ELSE IF IsInf(b) \/ IsZero(a) THEN Zero
    ELSE LET n  == a.m * 2^MantissaBits
             q  == n \div b.m
             r  == n % b.m
             e  == a.e - b.e - MantissaBits
             s  == a.s * b.s
         IN  IF q < 2^MantissaBits
             THEN LET up == 2 * r > b.m \/ (2 * r = b.m /\ q % 2 = 1)
                  IN  Norm(s, IF up THEN q + 1 ELSE q, e)
             ELSE LET h  == q \div 2
                      up == q % 2 = 1 /\ (r > 0 \/ h % 2 = 1)
                  IN  Norm(s, IF up THEN h + 1 ELSE h, e + 1)

\* a < b as f64 compares: false when either is NaN.
FLt(a, b) ==
    IF IsNaN(a) \/ IsNaN(b) THEN FALSE
    ELSE IF a = b THEN FALSE
    ELSE IF IsInf(a) THEN a.s = -1
    ELSE IF IsInf(b) THEN b.s = 1
    ELSE LET d == FSub(b, a) IN d.s = 1 /\ d.m > 0

\* f64::min and f64::max: a NaN operand is ignored.
FMin(a, b) == IF IsNaN(a) THEN b ELSE IF IsNaN(b) THEN a ELSE IF FLt(b, a) THEN b ELSE a

FMax(a, b) == IF IsNaN(a) THEN b ELSE IF IsNaN(b) THEN a ELSE IF FLt(a, b) THEN b ELSE a

\* Fraction bits of log2(x / 2^(MantissaBits-1)), x in [2^(MantissaBits-1),
\* 2^MantissaBits), most significant first, by repeated squaring.
RECURSIVE Log2Frac(_, _)
Log2Frac(x, n) ==
    IF n = 0 THEN 0
    ELSE LET sq == (x * x) \div 2^(MantissaBits - 1)
         IN  IF sq >= 2^MantissaBits
             THEN 2^(n - 1) + Log2Frac(sq \div 2, n - 1)
             ELSE Log2Frac(sq, n - 1)

\* f64::ln: NaN below zero, -inf at zero, else log2 times ln 2 (2839/4096).
Ln(a) ==
    IF IsNaN(a) THEN NAN
    ELSE IF IsZero(a) THEN NEG_INFINITY
    ELSE IF a.s = -1 THEN NAN
    ELSE IF IsInf(a) THEN INFINITY
    ELSE LET fb == MantissaBits - 1
             l2 == (a.e + MantissaBits - 1) * 2^fb + Log2Frac(a.m, fb)
             p  == l2 * 2839
         IN  IF p >= 0 THEN Norm(1, p, -(fb + 12)) ELSE Norm(-1, -p, -(fb + 12))

(***************************************************************************)
(* Text: formatting and parsing of CSV fields                              *)
(***************************************************************************)
Digits == <<"0", "1", "2", "3", "4", "5", "6", "7", "8", "9">>

IsDigit(c) == \E d \in 1..10 : Digits[d] = c

DigitVal(c) == (CHOOSE d \in 1..10 : Digits[d] = c) - 1

\* format!("{}", n) of an unsigned integer
RECURSIVE FormatUsize(_)
FormatUsize(n) ==
    IF n < 10 THEN <<Digits[n + 1]>>
    ELSE FormatUsize(n \div 10) \o <<Digits[(n % 10) + 1]>>

RECURSIVE DecimalValue(_)
DecimalValue(field) ==
    IF Len(field) = 0 THEN 0
    ELSE 10 * DecimalValue(SubSeq(field, 1, Len(field) - 1)) + DigitVal(field[Len(field)])

AllDigits(field) == Len(field) > 0 /\ \A p \in 1..Len(field) : IsDigit(field[p])

\* str::parse::<usize>: digits, with an optional leading "+".
ParseUsize(field) ==
    LET body == IF Len(field) > 0 /\ field[1] = "+" THEN Tail(field) ELSE field
    IN  IF AllDigits(body) THEN [ok |-> TRUE, v |-> DecimalValue(body)]
        ELSE [ok |-> FALSE, v |-> 0]

\* str::parse::<f64> on the fields of the model: an optionally signed digit
\* string (rounded to the nearest f64), "inf" and "NaN".
ParseF64(field) ==
    LET neg  == Len(field) > 0 /\ field[1] = "-"
        body == IF Len(field) > 0 /\ field[1] \in {"+", "-"} THEN Tail(field) ELSE field
    IN  IF AllDigits(body)
        THEN [ok |-> TRUE,
              v  |-> IF neg THEN FNeg(FromInt(DecimalValue(body)))
                     ELSE FromInt(DecimalValue(body))]
        ELSE IF body = <<"i", "n", "f">>
        THEN [ok |-> TRUE, v |-> IF neg THEN NEG_INFINITY ELSE INFINITY]
        ELSE IF body = <<"N", "a", "N">> THEN [ok |-> TRUE, v |-> NAN]
        ELSE [ok |-> FALSE, v |-> NAN]

HeaderNterms ==
    << <<"t", "_", "c", "o", "u", "n", "t">>, <<"n", "t", "e", "r", "m", "s">> >>

HeaderTimes ==
    << <<"t", "_", "c", "o", "u", "n", "t">>,
       <<"r", "u", "n", "t", "i", "m", "e", "_", "n", "a", "n", "o", "s">> >>

(***************************************************************************)
(* The file system under benches/results.  A result table is named by its  *)
(* kind and variant: <<"alpha", v>> is benchmark_alpha_<v>.csv and         *)
(* <<"times", v>> is benchmark_times_<v>.csv.                              *)
(***************************************************************************)
Variants == {"BssTOnly", "BssWithCats", "DynamicT", "NoSimp"}

TablePaths == {"alpha", "times"} \X Variants

NoFile == [exists |-> FALSE, lines |-> <<>>]

FileOf(lines) == [exists |-> TRUE, lines |-> lines]

VARIABLES
    pc,             \* position in bench and the function it is running
    graph_bins,     \* get_testset: the bins
    count_full,     \* get_testset: bins that reached SAMPLES_PER_TCOUNT
    i,              \* get_testset: depth of the sweep
    testset,        \* bench: the corpus get_testset returned
    call,           \* benchmark_driver: which bench_setup call is next
    name,           \* bench_setup: variant name
    requested,      \* bench_setup: max_tcount as passed by the caller
    max_tcount,     \* bench_setup: max_tcount after the clamp
    t_count,        \* bench_setup: outer loop variable
    j,              \* bench_setup: inner loop variable
    file_nterms,    \* bench_setup: lines held by the BufWriter of the nterms table
    file_times,     \* bench_setup: lines held by the BufWriter of the times table
    decomposed,     \* bench_setup: corpus indices handed to Decomposer::new, in order
    tables,         \* storage: the result tables
    images,         \* storage: the rendered charts, <<>> while a chart is absent
    alpha_files,    \* bench: the benchmark_alpha_ tables read_dir listed
    times_files,    \* bench: the benchmark_times_ tables read_dir listed
    plot_type,      \* create_svg_plot: "alpha" or "times"
    files,          \* create_svg_plot: the tables to read, in order
    output_path,    \* create_svg_plot: the chart to write
    file_no,        \* create_svg_plot: position in files of the table being read
    cursor,         \* create_svg_plot: data records taken from the reader so far
    data_points,    \* create_svg_plot: t_count -> values of the table being read
    data_series,    \* create_svg_plot: series name -> sorted points
    y_min,          \* create_svg_plot: data range
    y_max,
    plot_result     \* create_svg_plot: "running", "Ok" or the error returned

samplerVars == <<graph_bins, count_full, i>>

setupVars == <<name, requested, max_tcount, t_count, j, file_nterms, file_times, decomposed>>

dirVars == <<alpha_files, times_files>>

plotVars == <<plot_type, files, output_path, file_no, cursor, data_points, data_series,
              y_min, y_max, plot_result>>

plotSide == <<images, dirVars, plotVars>>

(***************************************************************************)
(* get_testset                                                             *)
(***************************************************************************)
\* graph.tcount() of a generated and simplified circuit: any value, also
\* below MIN_TCOUNT and at or above MAX_TCOUNT.
GenTCounts == (MIN_TCOUNT - 1)..(MAX_TCOUNT + 1)

Graph(t) == [tcount |-> t]

EmptyBins == [b \in 1..(MAX_TCOUNT - MIN_TCOUNT) |-> <<>>]

\* (MIN_TCOUNT..MAX_TCOUNT).contains(&t_count)
InRange(t) == MIN_TCOUNT <= t /\ t < MAX_TCOUNT

\* A faulty room test that lets a full bin take one more graph; the bin
\* invariant does not survive it.
BinHasRoomInclusive(bins, t) == Len(bins[t - MIN_TCOUNT + 1]) <= SAMPLES_PER_TCOUNT

\* graph_bins[t_count - MIN_TCOUNT].len() < SAMPLES_PER_TCOUNT
BinHasRoom(bins, t) == Len(bins[t - MIN_TCOUNT + 1]) < SAMPLES_PER_TCOUNT

\* graph_bins[t_count - MIN_TCOUNT].push(graph)
PushGraph(bins, g) ==
    [bins EXCEPT ![g.tcount - MIN_TCOUNT + 1] = Append(@, g)]

\* graph_bins[t_count - MIN_TCOUNT].len() == SAMPLES_PER_TCOUNT
BinIsFull(bins, t) == Len(bins[t - MIN_TCOUNT + 1]) = SAMPLES_PER_TCOUNT

\* A faulty flattening that concatenates the bins from the last to the first;
\* the corpus shape does not survive it.
RECURSIVE FlattenReversed(_)
FlattenReversed(bins) ==
    IF bins = <<>> THEN <<>>
    ELSE bins[Len(bins)] \o FlattenReversed(SubSeq(bins, 1, Len(bins) - 1))

RECURSIVE FlattenFrom(_, _)
FlattenFrom(bins, b) ==
    IF b > Len(bins) THEN <<>> ELSE bins[b] \o FlattenFrom(bins, b + 1)

\* graph_bins.into_iter().flatten().collect()
FlattenBins(bins) == FlattenFrom(bins, 1)

\* The end of the sweep `for i in MIN_TCOUNT..10 * MAX_TCOUNT`.
SweepEnd == 10 * MAX_TCOUNT

GetTestsetEnter ==
    /\ pc = "get_testset"
    /\ graph_bins' = EmptyBins
    /\ count_full' = 0
    /\ pc' = "while"
    /\ UNCHANGED <<i, testset, call, setupVars, tables>>
    /\ UNCHANGED plotSide

WhileTest ==
    /\ pc = "while"
    /\ IF count_full < MAX_TCOUNT - MIN_TCOUNT
       THEN i' = MIN_TCOUNT /\ pc' = "for"
       ELSE i' = i /\ pc' = "flatten"
    /\ UNCHANGED <<graph_bins, count_full, testset, call, setupVars, tables>>
    /\ UNCHANGED plotSide

ForBody ==
    /\ pc = "for"
    /\ i < SweepEnd
    /\ \E t \in GenTCounts :
         LET graph == Graph(t) IN
         IF InRange(t) /\ BinHasRoom(graph_bins, t)
         THEN LET pushed == PushGraph(graph_bins, graph) IN
              /\ graph_bins' = pushed
              /\ count_full' = IF BinIsFull(pushed, t) THEN count_full + 1 ELSE count_full
         ELSE UNCHANGED <<graph_bins, count_full>>
    /\ i' = i + 1
    /\ UNCHANGED <<pc, testset, call, setupVars, tables>>
    /\ UNCHANGED plotSide

ForEnd ==
    /\ pc = "for"
    /\ i >= SweepEnd
    /\ pc' = "while"
    /\ UNCHANGED <<samplerVars, testset, call, setupVars, tables>>
    /\ UNCHANGED plotSide

GetTestsetReturn ==
    /\ pc = "flatten"
    /\ testset' = FlattenBins(graph_bins)
    /\ pc' = "assert_len"
    /\ UNCHANGED <<samplerVars, call, setupVars, tables>>
    /\ UNCHANGED plotSide

(***************************************************************************)
(* bench_setup                                                             *)
(***************************************************************************)
\* What one decomposition reports and how long it took: decomposer.nterms
\* and elapsed.as_nanos().  Neither steers the control flow of this file.
Measurements == {[nterms |-> 2, nanos |-> 1000000]}

\* max_tcount = min(max_tcount, MAX_TCOUNT)
\* A faulty bound that is not clamped; the indexing property does not
\* survive it.
Unclamped(m) == m

ClampBound(m) == IF m < MAX_TCOUNT THEN m ELSE MAX_TCOUNT

\* index * SAMPLES_PER_TCOUNT + j, with index = t_count - MIN_TCOUNT
SampleIndex(t, jj) == (t - MIN_TCOUNT) * SAMPLES_PER_TCOUNT + jj

\* A faulty inner loop that stops one sample early; the row count does not
\* survive it.
NextSampleShort(t, jj) ==
    IF jj + 1 < SAMPLES_PER_TCOUNT - 1 THEN <<t, jj + 1>> ELSE <<t + 1, 0>>

\* The loop variables after one pass of `for j in 0..SAMPLES_PER_TCOUNT`
\* inside `for t_count in MIN_TCOUNT..max_tcount`.
NextSample(t, jj) == IF jj + 1 < SAMPLES_PER_TCOUNT THEN <<t, jj + 1>> ELSE <<t + 1, 0>>

\* File::create of both tables, the two header lines, the clamp.
bench_setup(nm, bound) ==
    /\ name' = nm
    /\ requested' = bound
    /\ tables' = [tables EXCEPT ![<<"alpha", nm>>] = FileOf(<<>>),
                                ![<<"times", nm>>] = FileOf(<<>>)]
    /\ file_nterms' = <<HeaderNterms>>
    /\ file_times' = <<HeaderTimes>>
    /\ max_tcount' = ClampBound(bound)
    /\ t_count' = MIN_TCOUNT
    /\ j' = 0
    /\ decomposed' = <<>>
    /\ pc' = "setup_loop"

\* One pass of the inner loop body (lines 84-97) and the loop increments.
SetupSample ==
    /\ pc = "setup_loop"
    /\ t_count < max_tcount
    /\ LET idx == SampleIndex(t_count, j) IN
       IF idx >= Len(testset)
       THEN /\ pc' = "panic"
            /\ UNCHANGED setupVars
       ELSE /\ \E meas \in Measurements :
                 /\ file_nterms' = Append(file_nterms,
                        <<FormatUsize(t_count), FormatUsize(meas.nterms)>>)
                 /\ file_times' = Append(file_times,
                        <<FormatUsize(t_count), FormatUsize(meas.nanos)>>)
            /\ decomposed' = Append(decomposed, idx)
            /\ t_count' = NextSample(t_count, j)[1]
            /\ j' = NextSample(t_count, j)[2]
            /\ pc' = pc
            /\ UNCHANGED <<name, requested, max_tcount>>
    /\ UNCHANGED <<samplerVars, testset, call, tables>>
    /\ UNCHANGED plotSide

\* Faulty writers that lose what they hold when dropped; the tables would
\* then be read incomplete.
DropUnflushed(tbl, nm, nterms_lines, times_lines) == tbl

\* The BufWriters are dropped at the end of bench_setup: what they hold
\* reaches storage.
DropWriters(tbl, nm, nterms_lines, times_lines) ==
    [tbl EXCEPT ![<<"alpha", nm>>] = FileOf(nterms_lines),
                ![<<"times", nm>>] = FileOf(times_lines)]

SetupReturn ==
    /\ pc = "setup_loop"
    /\ t_count >= max_tcount
    /\ tables' = DropWriters(tables, name, file_nterms, file_times)
    /\ file_nterms' = <<>>
    /\ file_times' = <<>>
    /\ pc' = "setup_returned"
    /\ UNCHANGED <<samplerVars, testset, call, name, requested, max_tcount,
                   t_count, j, decomposed>>
    /\ UNCHANGED plotSide

(***************************************************************************)
(* benchmark_driver and bench                                              *)
(***************************************************************************)
Drivers ==
    << [name |-> "BssTOnly", max_tcount |-> 32],
       [name |-> "BssWithCats", max_tcount |-> MAX_TCOUNT],
       [name |-> "DynamicT", max_tcount |-> MAX_TCOUNT] >>

\* std::fs::create_dir_all("benches/results")
BenchStart ==
    /\ pc = "bench"
    /\ pc' = "get_testset"
    /\ UNCHANGED <<samplerVars, testset, call, setupVars, tables>>
    /\ UNCHANGED plotSide

\* assert_eq!(testset.len(), (MAX_TCOUNT - MIN_TCOUNT) * SAMPLES_PER_TCOUNT)
AssertLen ==
    /\ pc = "assert_len"
    /\ IF Len(testset) = (MAX_TCOUNT - MIN_TCOUNT) * SAMPLES_PER_TCOUNT
       THEN pc' = "benchmark_driver" /\ call' = 1
       ELSE pc' = "panic" /\ call' = call
    /\ UNCHANGED <<samplerVars, testset, setupVars, tables>>
    /\ UNCHANGED plotSide

DriverCall ==
    /\ pc = "benchmark_driver"
    /\ call <= Len(Drivers)
    /\ bench_setup(Drivers[call].name, Drivers[call].max_tcount)
    /\ UNCHANGED <<samplerVars, testset, call>>
    /\ UNCHANGED plotSide

DriverNext ==
    /\ pc = "setup_returned"
    /\ call' = call + 1
    /\ pc' = IF call < Len(Drivers) THEN "benchmark_driver" ELSE "read_dir"
    /\ UNCHANGED <<samplerVars, testset, setupVars, tables>>
    /\ UNCHANGED plotSide

(***************************************************************************)
(* create_svg_plot                                                         *)
(***************************************************************************)
OutputPaths == {"nterms_plot", "runtime_plot"}

\* The sequences that list every element of S once.
Perms(S) ==
    {f \in [1..Cardinality(S) -> S] : \A a, b \in 1..Cardinality(S) : f[a] = f[b] => a = b}

\* file.split('/').next_back().unwrap().replace("benchmark_", "")
\*     .replace(&format!("{}_", plot_type), "").replace(".csv", "")
\* on benchmark_<kind>_<variant>.csv: <variant>, or <kind>_<variant> when
\* the kind is not plot_type.
SeriesName(pt, path) == IF path[1] = pt THEN <<path[2]>> ELSE <<path[1], path[2]>>

\* reader.records(): the first line is the header and is not yielded.
NumRecords(lines) == IF Len(lines) = 0 THEN 0 ELSE Len(lines) - 1

\* A lenient parse that takes an unreadable field as 0 and goes on; the
\* failure behaviour on malformed records does not survive it.
ParseLenient(header, record) ==
    LET t == IF Len(record) >= 1 THEN ParseUsize(record[1]) ELSE [ok |-> FALSE, v |-> 0]
        v == IF Len(record) >= 2 THEN ParseF64(record[2]) ELSE [ok |-> FALSE, v |-> Zero]
    IN  [kind    |-> "ok",
         t_count |-> IF t.ok THEN t.v ELSE 0,
         value   |-> IF v.ok THEN v.v ELSE Zero]

\* One pass of the body of `for result in reader.records()` up to the push:
\* `result?` (a record with another number of fields than the header is an
\* error of the reader), `record[0].parse()?`, `record[1].parse()?`.
ParseRecord(header, record) ==
    LET t == ParseUsize(record[1])
        v == IF Len(record) >= 2 THEN ParseF64(record[2]) ELSE [ok |-> FALSE, v |-> NAN]
    IN  IF Len(record) # Len(header) THEN [kind |-> "Err_csv", t_count |-> 0, value |-> NAN]
        ELSE IF ~t.ok THEN [kind |-> "Err_parse_int", t_count |-> 0, value |-> NAN]
        ELSE IF Len(record) < 2 THEN [kind |-> "panic", t_count |-> 0, value |-> NAN]
        ELSE IF ~v.ok THEN [kind |-> "Err_parse_float", t_count |-> 0, value |-> NAN]
        ELSE [kind |-> "ok", t_count |-> t.v, value |-> v.v]

\* data_points.entry(t_count).or_default().push(value)
EntryPush(dp, t, v) ==
    IF t \in DOMAIN dp THEN [dp EXCEPT ![t] = Append(@, v)]
    ELSE [key \in (DOMAIN dp) \cup {t} |-> IF key = t THEN <<v>> ELSE dp[key]]

RECURSIVE SumFrom(_, _)
SumFrom(acc, values) ==
    IF values = <<>> THEN acc ELSE SumFrom(FAdd(acc, Head(values)), Tail(values))

\* values.iter().sum::<f64>() / values.len() as f64
Mean(values) == FDiv(SumFrom(Zero, values), FromInt(Len(values)))

\* mean.ln(), or (mean / 1_000_000.0).ln()
PlotValue(pt, mean) ==
    IF pt = "alpha" THEN Ln(mean) ELSE Ln(FDiv(mean, FromInt(1000000)))

\* The loop `for (t_count, values) in data_points`, in the order the map
\* yields its entries.
Unsorted(pt, dp, order) ==
    [n \in 1..Len(order) |->
        [x |-> FromInt(order[n]), y |-> PlotValue(pt, Mean(dp[order[n]]))]]

RECURSIVE InsertByX(_, _)
InsertByX(sorted, point) ==
    IF sorted = <<>> THEN <<point>>
    ELSE IF FLt(point.x, Head(sorted).x) THEN <<point>> \o sorted
    ELSE <<Head(sorted)>> \o InsertByX(Tail(sorted), point)

\* A series left in the order the map yielded it; the ascending order of the
\* series does not survive it.
KeepOrder(series) == series

RECURSIVE SortFrom(_, _)
SortFrom(sorted, rest) ==
    IF rest = <<>> THEN sorted ELSE SortFrom(InsertByX(sorted, Head(rest)), Tail(rest))

\* series_data.sort_by(|a, b| a.0.partial_cmp(&b.0).unwrap()): a stable sort
SortByX(series) == SortFrom(<<>>, series)

\* Lines 131-141: the series of one table.
SeriesData(pt, dp, order) == SortByX(Unsorted(pt, dp, order))

\* data_series.insert(name, series_data)
MapInsert(map, key, val) ==
    [n \in (DOMAIN map) \cup {key} |-> IF n = key THEN val ELSE map[n]]

width == FromInt(800)

height == FromInt(600)

margin == FromInt(50)

plot_width == FSub(width, FMul(FromInt(2), margin))

plot_height == FSub(height, FMul(FromInt(2), margin))

x_min == FromInt(MIN_TCOUNT)

x_max == FSub(FromInt(MAX_TCOUNT), FromInt(1))

RECURSIVE AllY(_, _)
AllY(ds, order) ==
    IF order = <<>> THEN <<>>
    ELSE [n \in 1..Len(ds[Head(order)]) |-> ds[Head(order)][n].y] \o AllY(ds, Tail(order))

RECURSIVE FoldMin(_, _)
FoldMin(acc, ys) == IF ys = <<>> THEN acc ELSE FoldMin(FMin(acc, Head(ys)), Tail(ys))

RECURSIVE FoldMax(_, _)
FoldMax(acc, ys) == IF ys = <<>> THEN acc ELSE FoldMax(FMax(acc, Head(ys)), Tail(ys))

\* margin + ((x_val - x_min) / (x_max - x_min)) * plot_width
CanvasX(x_val) ==
    FAdd(margin, FMul(FDiv(FSub(x_val, x_min), FSub(x_max, x_min)), plot_width))

\* margin + ((y_max - y_val) / (y_max - y_min)) * plot_height
CanvasY(y_val, lo, hi) ==
    FAdd(margin, FMul(FDiv(FSub(hi, y_val), FSub(hi, lo)), plot_height))

\* i as f64 / 5.0
Fifth(n) == FDiv(FromInt(n), FromInt(5))

\* Lines 215-227: the vertical grid lines and the numbers printed under them.
XGrid ==
    [n \in 1..6 |-> [x     |-> FAdd(margin, FMul(Fifth(n - 1), plot_width)),
                     x_val |-> FAdd(x_min, FMul(Fifth(n - 1), FSub(x_max, x_min)))]]

\* Lines 229-241: the horizontal grid lines and the numbers printed beside them.
YGrid(lo, hi) ==
    [n \in 1..6 |-> [y     |-> FAdd(margin, FMul(Fifth(n - 1), plot_height)),
                     y_val |-> FSub(hi, FMul(Fifth(n - 1), FSub(hi, lo)))]]

colors == <<"red", "blue", "green", "magenta", "cyan">>

\* Lines 247-293: per series its colour, the points of its path and circles
\* (the same coordinates), and its legend entry.
Marks(ds, order, lo, hi) ==
    [n \in 1..Len(order) |->
        [name   |-> order[n],
         color  |-> colors[((n - 1) % Len(colors)) + 1],
         points |-> [q \in 1..Len(ds[order[n]]) |->
                        [x_val |-> ds[order[n]][q].x,
                         y_val |-> ds[order[n]][q].y,
                         x     |-> CanvasX(ds[order[n]][q].x),
                         y     |-> CanvasY(ds[order[n]][q].y, lo, hi)]]]]

\* The document of lines 165-295.
Svg(pt, ds, order, lo, hi) ==
    [title   |-> IF pt = "alpha" THEN "Average log(n_terms) vs t_count"
                 ELSE "Average log(runtime) vs t_count",
     y_label |-> IF pt = "alpha" THEN "log(mean n_terms)" ELSE "log(runtime in ms)",
     x_grid  |-> XGrid,
     y_grid  |-> YGrid(lo, hi),
     series  |-> Marks(ds, order, lo, hi)]

create_svg_plot(pt, fs, out) ==
    /\ plot_type' = pt
    /\ files' = fs
    /\ output_path' = out
    /\ data_series' = <<>>
    /\ data_points' = <<>>
    /\ file_no' = 1
    /\ cursor' = 0
    /\ y_min' = INFINITY
    /\ y_max' = NEG_INFINITY
    /\ plot_result' = "running"
    /\ pc' = "plot_files"

\* csv::Reader::from_path(&file)?
FileOpen ==
    /\ pc = "plot_files"
    /\ file_no <= Len(files)
    /\ IF tables[files[file_no]].exists
       THEN /\ data_points' = <<>>
            /\ cursor' = 0
            /\ pc' = "plot_records"
            /\ plot_result' = plot_result
       ELSE /\ plot_result' = "Err_io"
            /\ pc' = "plot_returned"
            /\ cursor' = 0
            /\ UNCHANGED data_points
    /\ UNCHANGED <<samplerVars, testset, call, setupVars, tables, images, dirVars,
                   plot_type, files, output_path, file_no, data_series, y_min, y_max>>

\* Lines 122-128, one record.
ReadRecord ==
    /\ pc = "plot_records"
    /\ cursor < NumRecords(tables[files[file_no]].lines)
    /\ LET lines   == tables[files[file_no]].lines
           outcome == ParseRecord(lines[1], lines[cursor + 2])
       IN  /\ cursor' = cursor + 1
           /\ IF outcome.kind = "ok"
              THEN /\ data_points' = EntryPush(data_points, outcome.t_count, outcome.value)
                   /\ UNCHANGED <<pc, plot_result>>
              ELSE IF outcome.kind = "panic"
              THEN /\ pc' = "panic"
                   /\ UNCHANGED <<data_points, plot_result>>
              ELSE /\ plot_result' = outcome.kind
                   /\ pc' = "plot_returned"
                   /\ UNCHANGED data_points
    /\ UNCHANGED <<samplerVars, testset, call, setupVars, tables, images, dirVars,
                   plot_type, files, output_path, file_no, data_series, y_min, y_max>>

\* Lines 130-142, once the reader is exhausted.
FileDone ==
    /\ pc = "plot_records"
    /\ cursor >= NumRecords(tables[files[file_no]].lines)
    /\ \E order \in Perms(DOMAIN data_points) :
         data_series' = MapInsert(data_series, SeriesName(plot_type, files[file_no]),
                                  SeriesData(plot_type, data_points, order))
    /\ file_no' = file_no + 1
    /\ pc' = "plot_files"
    /\ UNCHANGED <<samplerVars, testset, call, setupVars, tables, images, dirVars,
                   plot_type, files, output_path, cursor, data_points, y_min, y_max,
                   plot_result>>

\* Lines 145-301: the data range, the document, File::create and write_all.
Render ==
    /\ pc = "plot_files"
    /\ file_no > Len(files)
    /\ \E order \in Perms(DOMAIN data_series) :
         LET lo == FoldMin(INFINITY, AllY(data_series, order))
             hi == FoldMax(NEG_INFINITY, AllY(data_series, order))
         IN  /\ y_min' = lo
             /\ y_max' = hi
             /\ images' = [images EXCEPT ![output_path] =
                              <<Svg(plot_type, data_series, order, lo, hi)>>]
    /\ plot_result' = "Ok"
    /\ pc' = "plot_returned"
    /\ UNCHANGED <<samplerVars, testset, call, setupVars, tables, dirVars,
                   plot_type, files, output_path, file_no, cursor, data_points,
                   data_series>>

(***************************************************************************)
(* bench, after the benchmarks                                             *)
(***************************************************************************)
\* read_dir("benches/results") filtered by the substring benchmark_<kind>_,
\* in the order the directory yields its entries.
Listings(tbl, kind) == Perms({p \in TablePaths : p[1] = kind /\ tbl[p].exists})

ReadDirAlpha ==
    /\ pc = "read_dir"
    /\ \E listing \in Listings(tables, "alpha") : alpha_files' = listing
    /\ pc' = "read_dir_times"
    /\ UNCHANGED <<samplerVars, testset, call, setupVars, tables, images, times_files,
                   plotVars>>

ReadDirTimes ==
    /\ pc = "read_dir_times"
    /\ \E listing \in Listings(tables, "times") : times_files' = listing
    /\ pc' = "plot_alpha"
    /\ UNCHANGED <<samplerVars, testset, call, setupVars, tables, images, alpha_files,
                   plotVars>>

PlotAlpha ==
    /\ pc = "plot_alpha"
    /\ create_svg_plot("alpha", alpha_files, "nterms_plot")
    /\ UNCHANGED <<samplerVars, testset, call, setupVars, tables, images, dirVars>>

\* .expect("Failed to create nterms plot")
PlotAlphaExpect ==
    /\ pc = "plot_returned"
    /\ output_path = "nterms_plot"
    /\ pc' = IF plot_result = "Ok" THEN "plot_times" ELSE "panic"
    /\ UNCHANGED <<samplerVars, testset, call, setupVars, tables, images, dirVars,
                   plotVars>>

PlotTimes ==
    /\ pc = "plot_times"
    /\ create_svg_plot("times", times_files, "runtime_plot")
    /\ UNCHANGED <<samplerVars, testset, call, setupVars, tables, images, dirVars>>

\* .expect("Failed to create runtime plot"), then Ok(())
PlotTimesExpect ==
    /\ pc = "plot_returned"
    /\ output_path = "runtime_plot"
    /\ pc' = IF plot_result = "Ok" THEN "done" ELSE "panic"
    /\ UNCHANGED <<samplerVars, testset, call, setupVars, tables, images, dirVars,
                   plotVars>>

vars == <<pc, graph_bins, count_full, i, testset, call, name, requested, max_tcount,
          t_count, j, file_nterms, file_times, decomposed, tables, images,
          alpha_files, times_files, plot_type, files, output_path, file_no, cursor,
          data_points, data_series, y_min, y_max, plot_result>>

(***************************************************************************)
(* The run of bench.  The results directory may hold a table that an       *)
(* earlier run left there.                                                 *)
(***************************************************************************)
EmptyDir == [p \in TablePaths |-> NoFile]

Row(t, v) == <<FormatUsize(t), FormatUsize(v)>>

LeftOver ==
    { NoFile,
      FileOf(<<HeaderNterms, Row(12, 64), <<FormatUsize(12), <<"1", "e">> >> >>) }

InitialDirs == {[EmptyDir EXCEPT ![<<"alpha", "NoSimp">>] = f] : f \in LeftOver}

InitWith(tbl, at) ==
    /\ pc = at
    /\ graph_bins = EmptyBins
    /\ count_full = 0
    /\ i = 0
    /\ testset = <<>>
    /\ call = 0
    /\ name = ""
    /\ requested = 0
    /\ max_tcount = 0
    /\ t_count = 0
    /\ j = 0
    /\ file_nterms = <<>>
    /\ file_times = <<>>
    /\ decomposed = <<>>
    /\ tables = tbl
    /\ alpha_files = <<>>
    /\ times_files = <<>>
    /\ plot_type = ""
    /\ files = <<>>
    /\ output_path = ""
    /\ file_no = 0
    /\ cursor = 0
    /\ data_points = <<>>
    /\ data_series = <<>>
    /\ y_min = INFINITY
    /\ y_max = NEG_INFINITY
    /\ plot_result = ""

Init ==
    /\ \E tbl \in InitialDirs : InitWith(tbl, "bench")
    /\ images = [o \in OutputPaths |-> <<>>]

Next ==
    \/ BenchStart
    \/ GetTestsetEnter
    \/ WhileTest
    \/ ForBody
    \/ ForEnd
    \/ GetTestsetReturn
    \/ AssertLen
    \/ DriverCall
    \/ SetupSample
    \/ SetupReturn
    \/ DriverNext
    \/ ReadDirAlpha
    \/ ReadDirTimes
    \/ PlotAlpha
    \/ FileOpen
    \/ ReadRecord
    \/ FileDone
    \/ Render
    \/ PlotAlphaExpect
    \/ PlotTimes
    \/ PlotTimesExpect

Spec == Init /\ [][Next]_vars

(***************************************************************************)
(* get_testset alone.  The program is one thread that is never suspended:  *)
(* a step that can be taken is taken.                                      *)
(***************************************************************************)
InitClean ==
    /\ InitWith(EmptyDir, "bench")
    /\ images = [o \in OutputPaths |-> <<>>]

NextTestset ==
    \/ BenchStart
    \/ GetTestsetEnter
    \/ WhileTest
    \/ ForBody
    \/ ForEnd
    \/ GetTestsetReturn

SpecTestset == InitClean /\ [][NextTestset]_vars /\ WF_vars(NextTestset)

(***************************************************************************)
(* bench_setup called with any bound on the corpus get_testset returned.   *)
(***************************************************************************)
RequestedBounds == 0..(MAX_TCOUNT + 2)

SetupCall ==
    /\ pc = "benchmark_driver"
    /\ \E bound \in RequestedBounds : bench_setup("BssTOnly", bound)
    /\ UNCHANGED <<samplerVars, testset, call>>
    /\ UNCHANGED plotSide

NextSetup ==
    \/ BenchStart
    \/ GetTestsetEnter
    \/ WhileTest
    \/ ForBody
    \/ ForEnd
    \/ GetTestsetReturn
    \/ AssertLen
    \/ SetupCall
    \/ SetupSample
    \/ SetupReturn

SpecSetup == InitClean /\ [][NextSetup]_vars

(***************************************************************************)
(* create_svg_plot called on tables of any content: rows with the t_count  *)
(* fields MIN_TCOUNT, MAX_TCOUNT - 1 and x and the value fields 33, 16384  *)
(* and x, and a row of one field; beside it a second table of one row.  nterms_plot.svg is     *)
(* there from an earlier run, runtime_plot.svg is not.                     *)
(***************************************************************************)
Junk == <<"x">>

RowAlphabet ==
    { Row(MIN_TCOUNT, 33), Row(MIN_TCOUNT, 16384),
      Row(MAX_TCOUNT - 1, 33), Row(MAX_TCOUNT - 1, 16384),
      <<Junk, FormatUsize(33)>>, <<FormatUsize(MIN_TCOUNT), Junk>>,
      <<FormatUsize(MAX_TCOUNT - 1)>> }

HeaderOf(kind) == IF kind = "alpha" THEN HeaderNterms ELSE HeaderTimes

BoundedSeqs(S, n) == UNION {[1..m -> S] : m \in 0..n}

FirstTables(kind) == {FileOf(<<HeaderOf(kind)>> \o rows) : rows \in BoundedSeqs(RowAlphabet, MaxRows)}

SecondTable(kind) == FileOf(<<HeaderOf(kind), Row(MAX_TCOUNT - 1, 33)>>)

PlotDirsOf(kind) ==
    { [EmptyDir EXCEPT ![<<kind, "BssTOnly">>] = a, ![<<kind, "DynamicT">>] = SecondTable(kind)] :
        a \in FirstTables(kind) }

PlotDirs == PlotDirsOf("alpha") \cup PlotDirsOf("times")

StaleSvg ==
    [title |-> "left by an earlier run", y_label |-> "", x_grid |-> <<>>,
     y_grid |-> <<>>, series |-> <<>>]

InitialImages == [o \in OutputPaths |-> IF o = "nterms_plot" THEN <<StaleSvg>> ELSE <<>>]

InitPlot ==
    /\ \E tbl \in PlotDirs : InitWith(tbl, "plot_call")
    /\ images = InitialImages

FileLists(tbl, kind) ==
    LET a == <<kind, "BssTOnly">>
        b == <<kind, "DynamicT">>
    IN  IF tbl[a].exists THEN {<<>>, <<a>>, <<a, b>>, <<b, a>>} ELSE {<<>>}

PlotCall ==
    /\ pc = "plot_call"
    /\ \E pt \in {"alpha", "times"} :
         \E fs \in FileLists(tables, pt) :
            create_svg_plot(pt, fs, IF pt = "alpha" THEN "nterms_plot" ELSE "runtime_plot")
    /\ UNCHANGED <<samplerVars, testset, call, setupVars, tables, images, dirVars>>

NextPlot ==
    \/ PlotCall
    \/ FileOpen
    \/ ReadRecord
    \/ FileDone
    \/ Render

SpecPlot == InitPlot /\ [][NextPlot]_vars

(***************************************************************************)
(* Properties                                                              *)
(***************************************************************************)
InGetTestset == pc \in {"get_testset", "while", "for", "flatten"}

GetTestsetReturned == pc \notin {"bench", "get_testset", "while", "for", "flatten"}

\* The t-count chunk number c (from 0) of a flat corpus must hold.
ChunkTCount(c) == MIN_TCOUNT + c

\* C1: once get_testset has returned, the corpus has (MAX_TCOUNT - MIN_TCOUNT) *
\* SAMPLES_PER_TCOUNT samples, and its c-th chunk of SAMPLES_PER_TCOUNT samples
\* holds only samples of t-count MIN_TCOUNT + c, so the chunk t-counts rise
\* strictly from MIN_TCOUNT to MAX_TCOUNT - 1 and the assert_eq of bench passes.
C1_CorpusShape ==
    GetTestsetReturned =>
        /\ Len(testset) = (MAX_TCOUNT - MIN_TCOUNT) * SAMPLES_PER_TCOUNT
        /\ \A c \in 0..(MAX_TCOUNT - MIN_TCOUNT - 1) :
             \A n \in 1..SAMPLES_PER_TCOUNT :
                testset[c * SAMPLES_PER_TCOUNT + n].tcount = ChunkTCount(c)
        /\ (pc = "panic" => call > 0)

C1_Witness ==
    /\ pc = "benchmark_driver"
    /\ call = 1
    /\ Len(testset) = (MAX_TCOUNT - MIN_TCOUNT) * SAMPLES_PER_TCOUNT

\* C2: under the program's scheduling get_testset eventually stops: it
\* returns the corpus or fails with CorpusGenerationExhausted.
C2_SamplerStops == <>(pc = "assert_len" \/ pc = "CorpusGenerationExhausted")

FullBins == {b \in 1..(MAX_TCOUNT - MIN_TCOUNT) : Len(graph_bins[b]) = SAMPLES_PER_TCOUNT}

\* C9: while get_testset runs, no bin holds more than SAMPLES_PER_TCOUNT
\* samples, every sample of bin k has t-count MIN_TCOUNT + k, and count_full
\* is the number of bins that hold exactly SAMPLES_PER_TCOUNT samples, hence
\* at most MAX_TCOUNT - MIN_TCOUNT.
C9_BinInvariant ==
    InGetTestset /\ pc # "get_testset" =>
        /\ \A b \in 1..(MAX_TCOUNT - MIN_TCOUNT) :
             /\ Len(graph_bins[b]) <= SAMPLES_PER_TCOUNT
             /\ \A n \in 1..Len(graph_bins[b]) :
                  graph_bins[b][n].tcount = MIN_TCOUNT + (b - 1)
        /\ count_full = Cardinality(FullBins)
        /\ count_full <= MAX_TCOUNT - MIN_TCOUNT

C9_Witness ==
    /\ pc = "for"
    /\ count_full = 1
    /\ \E b \in 1..(MAX_TCOUNT - MIN_TCOUNT) :
         Len(graph_bins[b]) > 0 /\ Len(graph_bins[b]) < SAMPLES_PER_TCOUNT

\* Data rows (the header excluded) that storage holds of a table.
StoredRows(kind, nm) == NumRecords(tables[<<kind, nm>>].lines)

\* C3 as stated: after bench_setup with a bound max_tcount <= MAX_TCOUNT, each
\* of the two tables holds (max_tcount - MIN_TCOUNT) * SAMPLES_PER_TCOUNT rows.
C3_RowsAsStated ==
    pc = "setup_returned" /\ requested <= MAX_TCOUNT =>
        /\ StoredRows("alpha", name) = (requested - MIN_TCOUNT) * SAMPLES_PER_TCOUNT
        /\ StoredRows("times", name) = (requested - MIN_TCOUNT) * SAMPLES_PER_TCOUNT

\* C3 amended: after bench_setup with a bound max_tcount <= MAX_TCOUNT, each of
\* the two tables holds (max_tcount - MIN_TCOUNT) * SAMPLES_PER_TCOUNT rows
\* when max_tcount >= MIN_TCOUNT, and no row when max_tcount < MIN_TCOUNT.
C3_RowsWritten ==
    pc = "setup_returned" /\ requested <= MAX_TCOUNT =>
        LET rows == IF requested >= MIN_TCOUNT
                    THEN (requested - MIN_TCOUNT) * SAMPLES_PER_TCOUNT
                    ELSE 0
        IN  /\ StoredRows("alpha", name) = rows
            /\ StoredRows("times", name) = rows

C3_Witness ==
    /\ pc = "setup_returned"
    /\ requested > MIN_TCOUNT
    /\ requested < MAX_TCOUNT
    /\ StoredRows("times", name) = (requested - MIN_TCOUNT) * SAMPLES_PER_TCOUNT

\* The lines bench_setup has written to a table: in the BufWriter while it
\* runs, on storage once it has returned.
Written(kind) ==
    IF pc = "setup_returned" THEN tables[<<kind, name>>].lines
    ELSE IF kind = "alpha" THEN file_nterms ELSE file_times

Smaller(a, b) == IF a < b THEN a ELSE b

\* C10: for the corpus of get_testset and any bound, bench_setup never
\* indexes outside the corpus; it decomposes, once each, exactly the samples
\* whose t-count is below min(bound, MAX_TCOUNT), in non-decreasing t-count
\* order; and the t_count of both rows of a sample is that sample's t-count.
C10_SetupVisits ==
    /\ pc # "panic"
    /\ pc \in {"setup_loop", "setup_returned"} =>
        /\ \A n \in 1..Len(decomposed) :
             /\ decomposed[n] >= 0 /\ decomposed[n] < Len(testset)
             /\ testset[decomposed[n] + 1].tcount < Smaller(requested, MAX_TCOUNT)
             /\ ParseUsize(Written("alpha")[n + 1][1]) =
                    [ok |-> TRUE, v |-> testset[decomposed[n] + 1].tcount]
             /\ ParseUsize(Written("times")[n + 1][1]) =
                    [ok |-> TRUE, v |-> testset[decomposed[n] + 1].tcount]
        /\ Len(Written("alpha")) = Len(decomposed) + 1
        /\ Len(Written("times")) = Len(decomposed) + 1
        /\ \A a, b \in 1..Len(decomposed) :
             a < b => /\ decomposed[a] # decomposed[b]
                      /\ testset[decomposed[a] + 1].tcount <= testset[decomposed[b] + 1].tcount
        /\ pc = "setup_returned" =>
             \A q \in 1..Len(testset) :
                testset[q].tcount < Smaller(requested, MAX_TCOUNT) =>
                    \E n \in 1..Len(decomposed) : decomposed[n] = q - 1

C10_Witness ==
    /\ pc = "setup_returned"
    /\ requested > MAX_TCOUNT
    /\ Len(decomposed) = Len(testset)
    /\ Len(testset) > 0

InPlot == pc \in {"plot_files", "plot_records", "plot_returned"}

\* C4: in a run of bench, while create_svg_plot runs every bench_setup call
\* has returned, no BufWriter still holds a line, and storage holds, for each
\* of the three variants, both tables with all their rows.
C4_WrittenBeforeRead ==
    InPlot =>
        /\ call = Len(Drivers) + 1
        /\ file_nterms = <<>> /\ file_times = <<>>
        /\ \A d \in 1..Len(Drivers) : \A kind \in {"alpha", "times"} :
             /\ tables[<<kind, Drivers[d].name>>].exists
             /\ StoredRows(kind, Drivers[d].name) =
                    (Smaller(Drivers[d].max_tcount, MAX_TCOUNT) - MIN_TCOUNT)
                        * SAMPLES_PER_TCOUNT

C4_Witness ==
    /\ pc = "plot_records"
    /\ files[file_no] = <<"times", "DynamicT">>
    /\ cursor = (MAX_TCOUNT - MIN_TCOUNT) * SAMPLES_PER_TCOUNT

AllSeriesEmpty == \A n \in DOMAIN data_series : data_series[n] = <<>>

FiniteLabels(doc) == \A n \in 1..Len(doc.y_grid) : IsFinite(doc.y_grid[n].y_val)

\* C5: a table without data rows gives an empty series; and when
\* create_svg_plot has read all its files and every series is empty (or there
\* was no file) it reports NoData and leaves no image whose y range and
\* labels are infinite or NaN.
C5_EmptyInputGuard ==
    /\ pc = "plot_files" /\ file_no > 1 /\ NumRecords(tables[files[file_no - 1]].lines) = 0
         => data_series[SeriesName(plot_type, files[file_no - 1])] = <<>>
    /\ pc = "plot_returned" /\ file_no > Len(files) /\ AllSeriesEmpty
         => /\ plot_result = "Err_NoData"
            /\ \A n \in 1..Len(images[output_path]) : FiniteLabels(images[output_path][n])

\* A record that does not parse as (integer t_count, float value).
Malformed(record) ==
    \/ Len(record) # 2
    \/ ~ParseUsize(record[1]).ok
    \/ ~ParseF64(record[2]).ok

\* Records create_svg_plot has taken from the reader of the f-th file.
Taken(f) ==
    IF f < file_no THEN NumRecords(tables[files[f]].lines)
    ELSE IF f = file_no /\ pc \in {"plot_records", "plot_returned", "panic"} THEN cursor
    ELSE 0

\* C6: a malformed record that create_svg_plot has met made it return an
\* error at that record: no later record of the file was read, the file gave
\* no series, and the image is as it was before the call.
C6_MalformedAborts ==
    \A f \in 1..Len(files) :
        \A n \in 1..Taken(f) :
            Malformed(tables[files[f]].lines[n + 1]) =>
                /\ pc = "plot_returned"
                /\ plot_result \in {"Err_csv", "Err_parse_int", "Err_parse_float"}
                /\ f = file_no
                /\ cursor = n
                /\ SeriesName(plot_type, files[f]) \notin DOMAIN data_series
                /\ images = InitialImages

C6_Witness ==
    /\ pc = "plot_returned"
    /\ plot_result = "Err_parse_float"
    /\ file_no = 2
    /\ cursor = 2
    /\ NumRecords(tables[files[file_no]].lines) = 3
    /\ ~Malformed(tables[files[file_no]].lines[4])

RECURSIVE PointsOf(_, _)
PointsOf(dp, rows) ==
    IF rows = <<>> THEN dp
    ELSE PointsOf(EntryPush(dp, ParseUsize(Head(rows)[1]).v, ParseF64(Head(rows)[2]).v),
                  Tail(rows))

\* The series create_svg_plot computes from the data rows of one table.
AggregateRows(pt, rows) ==
    LET dp == PointsOf(<<>>, rows)
    IN  SeriesData(pt, dp, CHOOSE order \in Perms(DOMAIN dp) : TRUE)

Permuted(rows, perm) == [n \in 1..Len(rows) |-> rows[perm[n]]]

\* The table whose series create_svg_plot has just inserted.
JustRead == files[file_no - 1]

Aggregated == pc = "plot_files" /\ file_no > 1

TCountsOf(rows) == {ParseUsize(rows[n][1]).v : n \in 1..Len(rows)}

RECURSIVE TotalOf(_, _)
TotalOf(rows, t) ==
    IF rows = <<>> THEN 0
    ELSE (IF ParseUsize(Head(rows)[1]).v = t THEN DecimalValue(Head(rows)[2]) ELSE 0)
         + TotalOf(Tail(rows), t)

Rendered == pc = "plot_returned" /\ plot_result = "Ok"

PointsDrawn ==
    LET doc == images[output_path][1]
    IN  UNION {{doc.series[s].points[q] : q \in 1..Len(doc.series[s].points)} :
                 s \in 1..Len(doc.series)}

\* C8: in a rendered chart a larger x_val has a larger canvas x and a larger
\* y_val a smaller canvas y; x_min is drawn at margin, x_max at margin +
\* plot_width, y_max at margin and y_min at margin + plot_height, also when
\* all plotted y values are equal.
C8_AffineMonotone ==
    Rendered =>
        /\ \A a, b \in PointsDrawn :
             /\ FLt(a.x_val, b.x_val) => FLt(a.x, b.x)
             /\ FLt(a.y_val, b.y_val) => FLt(b.y, a.y)
        /\ \A a \in PointsDrawn :
             /\ a.x_val = x_min => a.x = margin
             /\ a.x_val = x_max => a.x = FAdd(margin, plot_width)
             /\ a.y_val = y_max => a.y = margin
             /\ a.y_val = y_min => a.y = FAdd(margin, plot_height)

====
